---------------------------- MODULE Spec2Model ----------------------------
(***************************************************************************)
(* A model of cargo-lock-diff: the Difference algebra                      *)
(* (src/src/difference.rs) and the composition of package and lock file    *)
(* differences (src/src/lib.rs).                                           *)
(*                                                                         *)
(* Every function of the library is pure, so a behaviour is one call: Init *)
(* draws the function and its arguments, and one action runs the function  *)
(* to its return (or to its panic).  What is not determined by the         *)
(* arguments is the iteration order of std's HashSet and HashMap, which    *)
(* the actions draw for every collection that has more than one.           *)
(***************************************************************************)
EXTENDS Integers, Sequences, FiniteSets, TLC

VARIABLES
    op,         \* the function that is called
    args,       \* its arguments, in order
    pc,         \* "called", "returned" or "panicked"
    unsorted,   \* the local vector as it is just before the call of sort()
    ret,        \* the returned value (<<>> until the function returns)
    suppress    \* <<is_equal_or_empty()>> once asked of a returned PackageDiff

vars == <<op, args, pc, unsorted, ret, suppress>>

---------------------------------------------------------------------------
(* Bounds of the model. *)

MaxElem == 3     \* values of the generic T are 1..MaxElem
MaxLen  == 2     \* longest Vec<T> handed to diff_vec

Elems == 1..MaxElem

RECURSIVE SeqsUpTo(_, _)
SeqsUpTo(S, n) ==
    IF n = 0 THEN {<<>>}
    ELSE SeqsUpTo(S, n - 1) \cup [1..n -> S]

Range(s) == {s[i] : i \in DOMAIN s}

(* All the orders in which a hash collection holding S may be iterated. *)
Perms(S) ==
    {f \in [1..Cardinality(S) -> S] : \A i, j \in DOMAIN f : i # j => f[i] # f[j]}

---------------------------------------------------------------------------
(* Option<T> *)

None == [some |-> FALSE]
Some(x) == [some |-> TRUE, v |-> x]
Option(S) == {None} \cup {Some(x) : x \in S}

---------------------------------------------------------------------------
(* enum Difference<T>, difference.rs:3-10 *)

Empty == [tag |-> "Empty"]
Equal(x) == [tag |-> "Equal", v |-> x]
Removed(x) == [tag |-> "Removed", v |-> x]
Modified(o, n) == [tag |-> "Modified", old |-> o, new |-> n]
Added(x) == [tag |-> "Added", v |-> x]

(* The position of a variant in the enum's declaration, which is what the  *)
(* derived PartialOrd/Ord compares first.                                   *)
VariantIndex(d) ==
    CASE d.tag = "Empty" -> 0
      [] d.tag = "Equal" -> 1
      [] d.tag = "Removed" -> 2
      [] d.tag = "Modified" -> 3
      [] d.tag = "Added" -> 4

(* #[derive(PartialOrd, Ord)]: the variant first, then the fields in the   *)
(* order they are declared.  x < y.                                         *)
DifferenceLess(x, y) ==
    \/ VariantIndex(x) < VariantIndex(y)
    \/ /\ VariantIndex(x) = VariantIndex(y)
       /\ CASE x.tag = "Empty" -> FALSE
            [] x.tag = "Modified" ->
                   \/ x.old < y.old
                   \/ x.old = y.old /\ x.new < y.new
            [] OTHER -> x.v < y.v

is_equal(d) == d.tag = "Equal"

is_empty(d) == d.tag = "Empty"

Difference_diff(a, b) ==
    IF a = b THEN Equal(a) ELSE Modified(a, b)

(* diff_opt with the two one-sided arms exchanged. *)
diff_opt_arms_swapped(a, b) ==
    CASE ~a.some /\ ~b.some -> Empty
      [] ~a.some /\ b.some -> Removed(b.v)
      [] a.some /\ ~b.some -> Added(a.v)
      [] a.some /\ b.some ->
             IF a.v = b.v THEN Equal(a.v) ELSE Modified(a.v, b.v)

diff_opt(a, b) ==
    CASE ~a.some /\ ~b.some -> Empty
      [] ~a.some /\ b.some -> Added(b.v)
      [] a.some /\ ~b.some -> Removed(a.v)
      [] a.some /\ b.some ->
             IF a.v = b.v THEN Equal(a.v) ELSE Modified(a.v, b.v)

---------------------------------------------------------------------------
(* std::collections::HashSet as the code uses it.  A set is its elements;  *)
(* `order` is a sequence that lists every element the set may hold once:   *)
(* the set is iterated in the order its elements come in `order`.          *)

HashSet_from_iter(v) == Range(v)

Iter(S, order) == SelectSeq(order, LAMBDA e : e \in S)

(* a.intersection(&b) walks the smaller of the two sets (a when they are   *)
(* as large) and keeps what the other one contains.                        *)
Intersection(A, orderA, B, orderB) ==
    IF Cardinality(A) <= Cardinality(B)
    THEN SelectSeq(Iter(A, orderA), LAMBDA e : e \in B)
    ELSE SelectSeq(Iter(B, orderB), LAMBDA e : e \in A)

(* a.difference(&b) walks a and keeps what b does not contain. *)
SetDifference(A, orderA, B) ==
    SelectSeq(Iter(A, orderA), LAMBDA e : e \notin B)

(* Vec::sort() on a Vec<Difference<T>>: a stable sort by Ord.  An insertion *)
(* sort that puts an element behind the ones it is not less than.           *)
RECURSIVE InsertDifference(_, _)
InsertDifference(x, s) ==
    IF s = <<>> THEN <<x>>
    ELSE IF DifferenceLess(x, Head(s)) THEN <<x>> \o s
    ELSE <<Head(s)>> \o InsertDifference(x, Tail(s))

RECURSIVE SortDifferences(_)
SortDifferences(s) ==
    IF s = <<>> THEN <<>>
    ELSE InsertDifference(s[Len(s)], SortDifferences(SubSeq(s, 1, Len(s) - 1)))

(* unstable_diff_vec walking the vectors themselves and not the sets made  *)
(* of them: an element is listed as often as it occurs.                    *)
unstable_diff_vec_no_sets(a, b, orderA, orderB) ==
    LET A == HashSet_from_iter(a)
        B == HashSet_from_iter(b)
        equal == SelectSeq(a, LAMBDA e : e \in B)
        onlyA == SelectSeq(a, LAMBDA e : e \notin B)
        onlyB == SelectSeq(b, LAMBDA e : e \notin A)
    IN  [i \in DOMAIN equal |-> Equal(equal[i])]
        \o [i \in DOMAIN onlyA |-> Removed(onlyA[i])]
        \o [i \in DOMAIN onlyB |-> Added(onlyB[i])]

unstable_diff_vec(a, b, orderA, orderB) ==
    LET A == HashSet_from_iter(a)
        B == HashSet_from_iter(b)
        equal == Intersection(A, orderA, B, orderB)
        onlyA == SetDifference(A, orderA, B)
        onlyB == SetDifference(B, orderB, A)
    IN  [i \in DOMAIN equal |-> Equal(equal[i])]
        \o [i \in DOMAIN onlyA |-> Removed(onlyA[i])]
        \o [i \in DOMAIN onlyB |-> Added(onlyB[i])]

(* diff_vec without its call of sort(). *)
diff_vec_no_sort(a, b, orderA, orderB) ==
    unstable_diff_vec(a, b, orderA, orderB)

diff_vec(a, b, orderA, orderB) ==
    SortDifferences(unstable_diff_vec(a, b, orderA, orderB))

---------------------------------------------------------------------------
(* Calls of the Difference algebra. *)

AlgebraCalls ==
    [op : {"Difference::diff"}, args : Elems \X Elems]
    \cup [op : {"Difference::diff_opt"}, args : Option(Elems) \X Option(Elems)]
    \cup [op : {"Difference::diff_vec"},
          args : SeqsUpTo(Elems, MaxLen) \X SeqsUpTo(Elems, MaxLen)]

InitAlgebra ==
    /\ \E c \in AlgebraCalls : op = c.op /\ args = c.args
    /\ pc = "called"
    /\ unsorted = <<>>
    /\ ret = <<>>
    /\ suppress = <<>>

Diff ==
    /\ pc = "called" /\ op = "Difference::diff"
    /\ ret' = Difference_diff(args[1], args[2])
    /\ pc' = "returned"
    /\ UNCHANGED <<op, args, unsorted, suppress>>

DiffOpt ==
    /\ pc = "called" /\ op = "Difference::diff_opt"
    /\ ret' = diff_opt(args[1], args[2])
    /\ pc' = "returned"
    /\ UNCHANGED <<op, args, unsorted, suppress>>

DiffVec ==
    /\ pc = "called" /\ op = "Difference::diff_vec"
    /\ \E orderA \in Perms(Range(args[1])), orderB \in Perms(Range(args[2])) :
          /\ unsorted' = unstable_diff_vec(args[1], args[2], orderA, orderB)
          /\ ret' = diff_vec(args[1], args[2], orderA, orderB)
    /\ pc' = "returned"
    /\ UNCHANGED <<op, args, suppress>>

NextAlgebra == Diff \/ DiffOpt \/ DiffVec

SpecAlgebra == InitAlgebra /\ [][NextAlgebra]_vars

---------------------------------------------------------------------------
(* struct Package, lib.rs:9-16, and the packages the model draws.  A        *)
(* version, a source and a checksum are only ever compared for equality,    *)
(* so two of each (one source) are all the cases.  Names and dependency     *)
(* names are ordered, and are numbers.  A package draws its dependencies    *)
(* from two names, which is enough for a duplicate, for a list that is not  *)
(* sorted and for two packages that share one dependency and differ in      *)
(* another; diff_vec itself is checked over 1..MaxElem under SpecAlgebra.   *)

MaxName == 2     \* package names are 1..MaxName

Names == 1..MaxName
DepNames == {1, 2}
Versions == {"1.15.0", "1.34.0"}
Sources == {"registry+https://github.com/rust-lang/crates.io-index"}
Checksums == {"fbbf1c77", "d0c01476"}

Packages ==
    [name : Names,
     version : Versions,
     source : Option(Sources),
     checksum : Option(Checksums),
     dependencies : SeqsUpTo(DepNames, MaxLen)]

(* panic!("diffing different packages is not supported"), lib.rs:42 *)
Panic == [panic |-> "diffing different packages is not supported"]

(* PackageDiff::diff without the comparison of the two names. *)
PackageDiff_diff_unchecked(a, b, orderA, orderB) ==
    [name |-> a.name,
     version |-> Difference_diff(a.version, b.version),
     source |-> diff_opt(a.source, b.source),
     checksum |-> diff_opt(a.checksum, b.checksum),
     dependencies |-> diff_vec(a.dependencies, b.dependencies, orderA, orderB)]

(* PackageDiff::diff; orderA and orderB are the iteration orders of the two *)
(* HashSets that diff_vec builds.                                           *)
PackageDiff_diff(a, b, orderA, orderB) ==
    IF a.name # b.name
    THEN Panic
    ELSE [name |-> a.name,
          version |-> Difference_diff(a.version, b.version),
          source |-> diff_opt(a.source, b.source),
          checksum |-> diff_opt(a.checksum, b.checksum),
          dependencies |-> diff_vec(a.dependencies, b.dependencies, orderA, orderB)]

(* added() taking the checksum from the source field. *)
added_checksum_from_source(p) ==
    [name |-> p.name,
     version |-> Added(p.version),
     source |-> IF p.source.some THEN Added(p.source.v) ELSE Empty,
     checksum |-> IF p.source.some THEN Added(p.source.v) ELSE Empty,
     dependencies |-> [i \in DOMAIN p.dependencies |-> Added(p.dependencies[i])]]

added(p) ==
    [name |-> p.name,
     version |-> Added(p.version),
     source |-> IF p.source.some THEN Added(p.source.v) ELSE Empty,
     checksum |-> IF p.checksum.some THEN Added(p.checksum.v) ELSE Empty,
     dependencies |-> [i \in DOMAIN p.dependencies |-> Added(p.dependencies[i])]]

removed(p) ==
    [name |-> p.name,
     version |-> Removed(p.version),
     source |-> IF p.source.some THEN Removed(p.source.v) ELSE Empty,
     checksum |-> IF p.checksum.some THEN Removed(p.checksum.v) ELSE Empty,
     dependencies |-> [i \in DOMAIN p.dependencies |-> Removed(p.dependencies[i])]]

(* is_equal_or_empty() that does not accept an Empty source. *)
is_equal_or_empty_source_equal_only(d) ==
    /\ is_equal(d.version)
    /\ is_equal(d.source)
    /\ (is_equal(d.checksum) \/ is_empty(d.checksum))
    /\ \A i \in DOMAIN d.dependencies :
          is_equal(d.dependencies[i]) \/ is_empty(d.dependencies[i])

is_equal_or_empty(d) ==
    /\ is_equal(d.version)
    /\ (is_equal(d.source) \/ is_empty(d.source))
    /\ (is_equal(d.checksum) \/ is_empty(d.checksum))
    /\ \A i \in DOMAIN d.dependencies :
          is_equal(d.dependencies[i]) \/ is_empty(d.dependencies[i])

---------------------------------------------------------------------------
(* Calls of PackageDiff. *)

PackageCalls ==
    [op : {"PackageDiff::diff"}, args : Packages \X Packages]
    \cup [op : {"PackageDiff::added", "PackageDiff::removed"},
          args : {<<p>> : p \in Packages}]

InitPackage ==
    /\ \E c \in PackageCalls : op = c.op /\ args = c.args
    /\ pc = "called"
    /\ unsorted = <<>>
    /\ ret = <<>>
    /\ suppress = <<>>

PackageDiffDiff ==
    /\ pc = "called" /\ op = "PackageDiff::diff"
    /\ \E orderA \in Perms(Range(args[1].dependencies)),
          orderB \in Perms(Range(args[2].dependencies)) :
          LET r == PackageDiff_diff(args[1], args[2], orderA, orderB)
          IN  IF r = Panic
              THEN pc' = "panicked" /\ UNCHANGED <<ret, unsorted>>
              ELSE /\ pc' = "returned"
                   /\ ret' = r
                   /\ unsorted' = unstable_diff_vec(args[1].dependencies,
                                      args[2].dependencies, orderA, orderB)
    /\ UNCHANGED <<op, args, suppress>>

PackageDiffAdded ==
    /\ pc = "called" /\ op = "PackageDiff::added"
    /\ ret' = added(args[1])
    /\ pc' = "returned"
    /\ UNCHANGED <<op, args, unsorted, suppress>>

PackageDiffRemoved ==
    /\ pc = "called" /\ op = "PackageDiff::removed"
    /\ ret' = removed(args[1])
    /\ pc' = "returned"
    /\ UNCHANGED <<op, args, unsorted, suppress>>

(* is_equal_or_empty(&self), asked of the PackageDiff that was returned. *)
IsEqualOrEmpty ==
    /\ pc = "returned" /\ suppress = <<>>
    /\ op \in {"PackageDiff::diff", "PackageDiff::added", "PackageDiff::removed"}
    /\ suppress' = <<is_equal_or_empty(ret)>>
    /\ UNCHANGED <<op, args, pc, unsorted, ret>>

NextPackage ==
    PackageDiffDiff \/ PackageDiffAdded \/ PackageDiffRemoved \/ IsEqualOrEmpty

SpecPackage == InitPackage /\ [][NextPackage]_vars

---------------------------------------------------------------------------
(* struct CargoLock, lib.rs:185-189, and CargoLockDiff::difference.         *)

MaxPkgs == 2     \* longest package list of a lock file

(* The packages of a lock file.  The name and the version decide the rest  *)
(* of the record: package 1 is a path dependency (no source, no checksum),  *)
(* the others come from the registry, with one checksum per version.  Only  *)
(* package 2 is known in two versions.  No package names two different      *)
(* dependencies, so that the HashSet of its dependencies has one iteration  *)
(* order only; PackageDiff::diff meets the other orders under SpecPackage.  *)
ChecksumOf(v) == IF v = "1.15.0" THEN "fbbf1c77" ELSE "d0c01476"

DependenciesOf(n, v) ==
    IF n = 1 THEN <<2>>
    ELSE IF v = "1.15.0" THEN <<1, 1>>
    ELSE <<2>>

LockPackages ==
    {p \in Packages :
        /\ p.name # 2 => p.version = "1.15.0"
        /\ p.source = IF p.name = 1 THEN None
                      ELSE Some("registry+https://github.com/rust-lang/crates.io-index")
        /\ p.checksum = IF p.name = 1 THEN None ELSE Some(ChecksumOf(p.version))
        /\ p.dependencies = DependenciesOf(p.name, p.version)}

(* The one order in which the dependencies of a package of LockPackages     *)
(* are iterated.                                                            *)
SetOrder(p) == CHOOSE o \in Perms(Range(p.dependencies)) : TRUE

LockVersions == {3, 4}

CargoLocks == [version : LockVersions, package : SeqsUpTo(LockPackages, MaxPkgs)]

(* HashMap::from_iter keeping the first pair of a key (an insert that does  *)
(* not replace).                                                            *)
HashMap_from_iter_first_wins(packages) ==
    [n \in {packages[i].name : i \in DOMAIN packages} |->
        LET first == CHOOSE i \in DOMAIN packages :
                         /\ packages[i].name = n
                         /\ \A j \in DOMAIN packages : packages[j].name = n => i <= j
        IN  packages[first]]

(* HashMap::from_iter over (package.name.clone(), package): a later pair    *)
(* replaces an earlier one that has the same key.                           *)
HashMap_from_iter(packages) ==
    [n \in {packages[i].name : i \in DOMAIN packages} |->
        LET last == CHOOSE i \in DOMAIN packages :
                        /\ packages[i].name = n
                        /\ \A j \in DOMAIN packages : packages[j].name = n => j <= i
        IN  packages[last]]

(* Vec::sort() on a Vec<PackageDiff>, whose Ord compares the names          *)
(* (lib.rs:27-37): a stable sort.                                           *)
RECURSIVE InsertPackageDiff(_, _)
InsertPackageDiff(x, s) ==
    IF s = <<>> THEN <<x>>
    ELSE IF x.name < Head(s).name THEN <<x>> \o s
    ELSE <<Head(s)>> \o InsertPackageDiff(x, Tail(s))

RECURSIVE SortPackageDiffs(_)
SortPackageDiffs(s) ==
    IF s = <<>> THEN <<>>
    ELSE InsertPackageDiff(s[Len(s)], SortPackageDiffs(SubSeq(s, 1, Len(s) - 1)))

(* The iteration orders one call of difference() meets: those of its two    *)
(* HashMaps.                                                                *)
HashOrders(a, b) ==
    [mapA : Perms({a.package[i].name : i \in DOMAIN a.package}),
     mapB : Perms({b.package[i].name : i \in DOMAIN b.package})]

(* The first loop diffing a package of a with whatever package b yields     *)
(* first, and not with b.get(name).                                         *)
unsorted_packages_any_of_b(a, b, h) ==
    LET A == HashMap_from_iter(a.package)
        B == HashMap_from_iter(b.package)
        first == [i \in DOMAIN h.mapA |->
                    LET name == h.mapA[i]
                    IN  IF name \in DOMAIN B
                        THEN PackageDiff_diff(A[name], B[h.mapB[1]],
                                 SetOrder(A[name]), SetOrder(B[h.mapB[1]]))
                        ELSE removed(A[name])]
        onlyB == SelectSeq(h.mapB, LAMBDA name : name \notin DOMAIN A)
        second == [i \in DOMAIN onlyB |-> added(B[onlyB[i]])]
    IN  first \o second

(* `package` of difference() when the two loops are done, before sort(). *)
unsorted_packages(a, b, h) ==
    LET A == HashMap_from_iter(a.package)
        B == HashMap_from_iter(b.package)
        first == [i \in DOMAIN h.mapA |->
                    LET name == h.mapA[i]
                    IN  IF name \in DOMAIN B
                        THEN PackageDiff_diff(A[name], B[name],
                                 SetOrder(A[name]), SetOrder(B[name]))
                        ELSE removed(A[name])]
        onlyB == SelectSeq(h.mapB, LAMBDA name : name \notin DOMAIN A)
        second == [i \in DOMAIN onlyB |-> added(B[onlyB[i]])]
    IN  first \o second

(* The same without `if a.contains_key(&name) { continue; }`. *)
unsorted_packages_no_contains_key(a, b, h) ==
    LET A == HashMap_from_iter(a.package)
        B == HashMap_from_iter(b.package)
        first == [i \in DOMAIN h.mapA |->
                    LET name == h.mapA[i]
                    IN  IF name \in DOMAIN B
                        THEN PackageDiff_diff(A[name], B[name],
                                 SetOrder(A[name]), SetOrder(B[name]))
                        ELSE removed(A[name])]
        second == [i \in DOMAIN h.mapB |-> added(B[h.mapB[i]])]
    IN  first \o second

(* difference() without package.sort(). *)
difference_no_sort(a, b, h) ==
    LET package == unsorted_packages(a, b, h)
    IN  IF \E i \in DOMAIN package : package[i] = Panic
        THEN Panic
        ELSE [version |-> Difference_diff(a.version, b.version),
              package |-> package]

(* difference() pushing the added packages although a has them too. *)
difference_no_contains_key(a, b, h) ==
    LET package == unsorted_packages_no_contains_key(a, b, h)
    IN  IF \E i \in DOMAIN package : package[i] = Panic
        THEN Panic
        ELSE [version |-> Difference_diff(a.version, b.version),
              package |-> SortPackageDiffs(package)]

(* CargoLockDiff::difference.  A panic of PackageDiff::diff in the first    *)
(* loop ends the call.                                                      *)
difference(a, b, h) ==
    LET package == unsorted_packages(a, b, h)
    IN  IF \E i \in DOMAIN package : package[i] = Panic
        THEN Panic
        ELSE [version |-> Difference_diff(a.version, b.version),
              package |-> SortPackageDiffs(package)]

---------------------------------------------------------------------------
(* Calls of CargoLockDiff::difference. *)

InitLock ==
    /\ op = "CargoLockDiff::difference"
    /\ args \in CargoLocks \X CargoLocks
    /\ pc = "called"
    /\ unsorted = <<>>
    /\ ret = <<>>
    /\ suppress = <<>>

Difference ==
    /\ pc = "called" /\ op = "CargoLockDiff::difference"
    /\ \E h \in HashOrders(args[1], args[2]) :
          LET r == difference(args[1], args[2], h)
          IN  IF r = Panic
              THEN pc' = "panicked" /\ UNCHANGED <<ret, unsorted>>
              ELSE /\ pc' = "returned"
                   /\ ret' = r
                   /\ unsorted' = unsorted_packages(args[1], args[2], h)
    /\ UNCHANGED <<op, args, suppress>>

NextLock == Difference

SpecLock == InitLock /\ [][NextLock]_vars

---------------------------------------------------------------------------
(* Claims about the Difference algebra, checked under SpecAlgebra. *)

Returned(f) == pc = "returned" /\ op = f

(* What diff_vec owes an element e of set(a) \cup set(b). *)
EntryOf(e, A, B) ==
    IF e \in A /\ e \in B THEN Equal(e)
    ELSE IF e \in A THEN Removed(e)
    ELSE Added(e)

(* C1: diff_vec(a, b) holds exactly one entry per distinct element of       *)
(* set(a) \cup set(b): Equal(e) when e is in both, Removed(e) when e is     *)
(* only in a, Added(e) when e is only in b; it holds no Empty and no        *)
(* Modified, and its length is |set(a) \cup set(b)|.                        *)
C1_DiffVecOneEntryPerElement ==
    Returned("Difference::diff_vec") =>
        LET A == Range(args[1])
            B == Range(args[2])
        IN  /\ Len(ret) = Cardinality(A \cup B)
            /\ \A i \in DOMAIN ret : ret[i].tag \in {"Equal", "Removed", "Added"}
            /\ \A e \in A \cup B :
                  Cardinality({i \in DOMAIN ret : ret[i] = EntryOf(e, A, B)}) = 1
            /\ \A i \in DOMAIN ret : ret[i].v \in A \cup B

(* C1 witness: both inputs hold a duplicate, and the result has a Removed   *)
(* and an Added entry.                                                      *)
C1_Witness ==
    /\ Returned("Difference::diff_vec")
    /\ Len(args[1]) > Cardinality(Range(args[1]))
    /\ Len(args[2]) > Cardinality(Range(args[2]))
    /\ \E i, j \in DOMAIN ret : ret[i].tag = "Removed" /\ ret[j].tag = "Added"

GroupIndex(d) ==
    CASE d.tag = "Removed" -> 0
      [] d.tag = "Equal" -> 1
      [] d.tag = "Added" -> 2

(* C3: diff_vec lists all Removed entries first, then all Equal entries,    *)
(* then all Added entries, each group in ascending order of the element.    *)
C3_DiffVecRemovedEqualAdded ==
    Returned("Difference::diff_vec") =>
        \A i, j \in DOMAIN ret :
            i < j =>
                \/ GroupIndex(ret[i]) < GroupIndex(ret[j])
                \/ ret[i].tag = ret[j].tag /\ ret[i].v < ret[j].v

(* C8: diff_opt answers each of the four presence combinations with one     *)
(* variant: (None, None) Empty, (None, Some(b)) Added(b), (Some(a), None)   *)
(* Removed(a), (Some(a), Some(b)) Equal(a) when a = b and                   *)
(* Modified{old: a, new: b} otherwise.  diff(a, b) is                       *)
(* diff_opt(Some(a), Some(b)): Equal or Modified only, and directed.        *)
C8_DiffOptTotalAndDiffAgrees ==
    /\ Returned("Difference::diff_opt") =>
          LET a == args[1]
              b == args[2]
          IN  /\ (a = None /\ b = None) => ret = [tag |-> "Empty"]
              /\ (a = None /\ b # None) => ret = [tag |-> "Added", v |-> b.v]
              /\ (a # None /\ b = None) => ret = [tag |-> "Removed", v |-> a.v]
              /\ (a # None /\ b # None /\ a.v = b.v) =>
                     ret = [tag |-> "Equal", v |-> a.v]
              /\ (a # None /\ b # None /\ a.v # b.v) =>
                     ret = [tag |-> "Modified", old |-> a.v, new |-> b.v]
    /\ Returned("Difference::diff") =>
          LET a == args[1]
              b == args[2]
          IN  /\ ret = diff_opt(Some(a), Some(b))
              /\ ret.tag \in {"Equal", "Modified"}
              /\ a = b => ret = [tag |-> "Equal", v |-> a]
              /\ a # b =>
                    /\ ret = [tag |-> "Modified", old |-> a, new |-> b]
                    /\ Difference_diff(b, a) = [tag |-> "Modified", old |-> b, new |-> a]

(* C8 witness: diff_opt has returned Modified for two present, different    *)
(* values.                                                                  *)
C8_Witness ==
    /\ Returned("Difference::diff_opt")
    /\ args[1].some /\ args[2].some /\ args[1].v # args[2].v
    /\ ret.tag = "Modified"

---------------------------------------------------------------------------
(* Claims about PackageDiff, checked under SpecPackage. *)

PackageDiffReturned ==
    /\ pc = "returned"
    /\ op \in {"PackageDiff::diff", "PackageDiff::added", "PackageDiff::removed"}

(* C4: in every PackageDiff, built by diff, added or removed, the           *)
(* dependencies are sorted by the derived order of Difference and hold      *)
(* each dependency name at most once.                                       *)
C4_DependenciesSortedAndUnique ==
    PackageDiffReturned =>
        LET d == ret.dependencies
        IN  /\ \A i, j \in DOMAIN d : i < j => ~DifferenceLess(d[j], d[i])
            /\ \A i, j \in DOMAIN d : i # j => d[i].v # d[j].v

(* C7: PackageDiff::diff(a, b) panics exactly when a.name # b.name, and     *)
(* then yields no PackageDiff; when the names are equal it returns a        *)
(* PackageDiff of that name.                                                *)
C7_DiffPanicsIffNamesDiffer ==
    (op = "PackageDiff::diff" /\ pc # "called") =>
        /\ pc = "panicked" <=> args[1].name # args[2].name
        /\ pc = "returned" <=> args[1].name = args[2].name
        /\ pc = "panicked" => ret = <<>>
        /\ pc = "returned" =>
              /\ ret # <<>>
              /\ ret.name = args[1].name
              /\ ret.name = args[2].name

(* C7 witness: a call that panicked, on two packages that differ in the     *)
(* name only.                                                               *)
C7_Witness ==
    /\ op = "PackageDiff::diff" /\ pc = "panicked"
    /\ args[1].name # args[2].name
    /\ [args[1] EXCEPT !.name = args[2].name] = args[2]

OneSided(r, d, tag) ==
    /\ d.name = r.name
    /\ d.version = [tag |-> tag, v |-> r.version]
    /\ d.source = IF r.source = None THEN [tag |-> "Empty"]
                  ELSE [tag |-> tag, v |-> r.source.v]
    /\ d.checksum = IF r.checksum = None THEN [tag |-> "Empty"]
                    ELSE [tag |-> tag, v |-> r.checksum.v]
    /\ Len(d.dependencies) = Len(r.dependencies)
    /\ \A i \in DOMAIN r.dependencies :
          d.dependencies[i] = [tag |-> tag, v |-> r.dependencies[i]]

(* C9: added(r) has the name of r, version Added(r.version), source and     *)
(* checksum Added(v) when r has them and Empty when it has not, and every   *)
(* dependency of r as Added(dep); removed(r) is the same with Removed.      *)
C9_AddedAndRemovedWrapEveryField ==
    /\ Returned("PackageDiff::added") => OneSided(args[1], ret, "Added")
    /\ Returned("PackageDiff::removed") => OneSided(args[1], ret, "Removed")

(* C9 witness: added() of a package without a source, with a checksum and   *)
(* with dependencies.                                                       *)
C9_Witness ==
    /\ Returned("PackageDiff::added")
    /\ args[1].source = None /\ args[1].checksum # None
    /\ args[1].dependencies # <<>>
    /\ ret.source = Empty /\ ret.checksum.tag = "Added"

(* C10: for every record r, PackageDiff::diff(r, r) has version Equal,      *)
(* source and checksum each Equal or Empty, every dependency entry Equal,   *)
(* and is_equal_or_empty() is true of it.                                   *)
C10_DiffWithItselfIsEqualOrEmpty ==
    (op = "PackageDiff::diff" /\ pc # "called" /\ args[1] = args[2]) =>
        /\ pc = "returned"
        /\ ret.version.tag = "Equal"
        /\ ret.source.tag \in {"Equal", "Empty"}
        /\ ret.checksum.tag \in {"Equal", "Empty"}
        /\ \A i \in DOMAIN ret.dependencies : ret.dependencies[i].tag = "Equal"
        /\ Range(args[1].dependencies)
               = {ret.dependencies[i].v : i \in DOMAIN ret.dependencies}
        /\ suppress # <<>> => suppress[1] = TRUE

(* C10 witness: is_equal_or_empty() has answered for diff(r, r), where r    *)
(* lists a dependency twice and has no source.                              *)
C10_Witness ==
    /\ op = "PackageDiff::diff" /\ pc = "returned" /\ args[1] = args[2]
    /\ Len(args[1].dependencies) > Cardinality(Range(args[1].dependencies))
    /\ args[1].source = None /\ args[1].checksum # None
    /\ suppress = <<TRUE>>

---------------------------------------------------------------------------
(* Claims about CargoLockDiff::difference, checked under SpecLock. *)

NamesOf(packages) == {packages[i].name : i \in DOMAIN packages}

(* Some order of its dependency set makes d the diff of the records ra, rb. *)
IsDiffOf(d, ra, rb) ==
    \E orderA \in Perms(Range(ra.dependencies)),
       orderB \in Perms(Range(rb.dependencies)) :
        d = PackageDiff_diff(ra, rb, orderA, orderB)

(* C5: difference(a, b) emits exactly one PackageDiff per distinct package  *)
(* name of a or b: PackageDiff::diff of a record of a and a record of b     *)
(* for a name in both, PackageDiff::removed of a record of a for a name     *)
(* only in a, PackageDiff::added of a record of b for a name only in b; no  *)
(* name is emitted twice and none is missing.                               *)
C5_OnePackageDiffPerName ==
    Returned("CargoLockDiff::difference") =>
        LET a == args[1].package
            b == args[2].package
            out == ret.package
        IN  /\ NamesOf(out) = NamesOf(a) \cup NamesOf(b)
            /\ \A i, j \in DOMAIN out : i # j => out[i].name # out[j].name
            /\ \A i \in DOMAIN out :
                  LET n == out[i].name
                  IN  /\ (n \in NamesOf(a) /\ n \in NamesOf(b)) =>
                             \E x \in DOMAIN a, y \in DOMAIN b :
                                 /\ a[x].name = n /\ b[y].name = n
                                 /\ IsDiffOf(out[i], a[x], b[y])
                      /\ (n \in NamesOf(a) /\ n \notin NamesOf(b)) =>
                             \E x \in DOMAIN a :
                                 a[x].name = n /\ out[i] = removed(a[x])
                      /\ (n \notin NamesOf(a) /\ n \in NamesOf(b)) =>
                             \E y \in DOMAIN b :
                                 b[y].name = n /\ out[i] = added(b[y])

(* C5 witness: one name is in both lock files and another in one of them    *)
(* only, and the package in both was diffed to a Modified version.          *)
C5_Witness ==
    /\ Returned("CargoLockDiff::difference")
    /\ NamesOf(args[1].package) \cap NamesOf(args[2].package) # {}
    /\ NamesOf(args[1].package) # NamesOf(args[2].package)
    /\ \E i \in DOMAIN ret.package : ret.package[i].version.tag = "Modified"

UniqueNames(packages) ==
    \A i, j \in DOMAIN packages : i # j => packages[i].name # packages[j].name

(* The lock file with its packages listed in ascending order of the name. *)
ByName(lock) ==
    [lock EXCEPT !.package =
        CHOOSE s \in Perms(Range(lock.package)) :
            \A i, j \in DOMAIN s : i < j => s[i].name < s[j].name]

(* The two HashMaps iterated in ascending order of the key. *)
AscendingOrders(a, b) ==
    CHOOSE h \in HashOrders(a, b) :
        /\ \A i, j \in DOMAIN h.mapA : i < j => h.mapA[i] < h.mapA[j]
        /\ \A i, j \in DOMAIN h.mapB : i < j => h.mapB[i] < h.mapB[j]

(* C6: with package names unique within each lock file, difference returns  *)
(* the same CargoLockDiff for every iteration order of its hash maps and    *)
(* every order of the two package lists, and its package list is in         *)
(* strictly ascending order of the name.  Every call, whatever the order    *)
(* of its lists and of its maps, returns what the call on the lists sorted  *)
(* by name with maps iterated in ascending order returns.                   *)
C6_DifferenceIsDeterministicAndSorted ==
    (/\ Returned("CargoLockDiff::difference")
     /\ UniqueNames(args[1].package)
     /\ UniqueNames(args[2].package)) =>
        /\ \A i, j \in DOMAIN ret.package :
              i < j => ret.package[i].name < ret.package[j].name
        /\ ret = difference(ByName(args[1]), ByName(args[2]),
                            AscendingOrders(args[1], args[2]))

(* C6 witness: the first list is not in the order of the names, and sort()  *)
(* changed the order in which the maps had been iterated.                   *)
C6_Witness ==
    /\ Returned("CargoLockDiff::difference")
    /\ UniqueNames(args[1].package) /\ UniqueNames(args[2].package)
    /\ args[1] # ByName(args[1])
    /\ unsorted # ret.package
    /\ Len(ret.package) >= 2

(* The last record of `packages` that has the name n. *)
LastNamed(packages, n) ==
    packages[CHOOSE i \in DOMAIN packages :
                 /\ packages[i].name = n
                 /\ \A j \in DOMAIN packages : j > i => packages[j].name # n]

(* C11: when the package list of a lock file holds several records of one   *)
(* name, difference uses the last of them in list order and none of the     *)
(* earlier ones, and reports no error: the call returns, and the entry of   *)
(* every name is made of the last record of that name in a and in b.        *)
C11_LastRecordOfANameWins ==
    (op = "CargoLockDiff::difference" /\ pc # "called") =>
        /\ pc = "returned"
        /\ LET a == args[1].package
               b == args[2].package
               out == ret.package
           IN  \A i \in DOMAIN out :
                   LET n == out[i].name
                   IN  /\ (n \in NamesOf(a) /\ n \in NamesOf(b)) =>
                              IsDiffOf(out[i], LastNamed(a, n), LastNamed(b, n))
                       /\ (n \in NamesOf(a) /\ n \notin NamesOf(b)) =>
                              out[i] = removed(LastNamed(a, n))
                       /\ (n \notin NamesOf(a) /\ n \in NamesOf(b)) =>
                              out[i] = added(LastNamed(b, n))

(* C11 witness: each list holds two different records of one name, and the  *)
(* entry of that name is the diff of the two last ones.                     *)
C11_Witness ==
    /\ Returned("CargoLockDiff::difference")
    /\ Len(args[1].package) = 2 /\ Len(args[2].package) = 2
    /\ args[1].package[1].name = args[1].package[2].name
    /\ args[1].package[1] # args[1].package[2]
    /\ args[2].package[1].name = args[2].package[2].name
    /\ args[2].package[1] # args[2].package[2]
    /\ args[1].package[2] # args[2].package[2]
    /\ Len(ret.package) = 1
    /\ ret.package[1].version.tag = "Modified"

(* C12: difference(a, b) never panics, whatever the two lock files (empty   *)
(* lists, duplicate names, disjoint or overlapping names): every call of    *)
(* PackageDiff::diff it makes is on two records of one name, the key under  *)
(* which both maps hold them.                                               *)
C12_DifferenceNeverPanics ==
    op = "CargoLockDiff::difference" =>
        /\ pc # "panicked"
        /\ \A i \in DOMAIN unsorted : unsorted[i] # Panic
        /\ LET A == HashMap_from_iter(args[1].package)
               B == HashMap_from_iter(args[2].package)
           IN  \A n \in DOMAIN A \cap DOMAIN B : A[n].name = n /\ B[n].name = n

(* C12 witness: a call that returned although a lists a name twice, b is    *)
(* neither disjoint from a nor of the same names, and a diff was made.      *)
C12_Witness ==
    /\ Returned("CargoLockDiff::difference")
    /\ ~UniqueNames(args[1].package)
    /\ NamesOf(args[1].package) \cap NamesOf(args[2].package) # {}
    /\ NamesOf(args[2].package) \ NamesOf(args[1].package) # {}
    /\ \E i \in DOMAIN ret.package : ret.package[i].version.tag \in {"Equal", "Modified"}

=============================================================================
